---- MODULE Spec2Model ----
(***************************************************************************)
(* Model of russy.py: the RssBot feed poller.  One asyncio task            *)
(* (process_feeds_loop) walks the configured feeds in order; for each feed *)
(* it runs process_feed (fetch, filter, sort, send/mark per entry, save)   *)
(* and then sleeps for that feed's interval.  The delivery state is a      *)
(* mapping feed name -> list of identifiers, kept in memory and dumped to  *)
(* the state file at the end of every process_feed.                        *)
(***************************************************************************)
EXTENDS Integers, Sequences, FiniteSets, TLC

(***************************************************************************)
(* Bounds of the model.                                                    *)
(***************************************************************************)
MaxLen == 2        \* longest fetched entry list
MaxPolls == 3      \* process_feed calls in one behaviour (all feeds, all runs)
MaxRestarts == 1   \* process terminations followed by a new start

(***************************************************************************)
(* Program constants.                                                      *)
(***************************************************************************)
default_interval == 3600   \* self.default_interval
PacingDelay == 2           \* asyncio.sleep(2) after each send

(***************************************************************************)
(* Python values.  NoKey: the key is not in the dict (dict.get falls to    *)
(* its default).  None: Python's None.  For published_parsed, NoTs is a    *)
(* missing key and TsNone a key holding None.                              *)
(***************************************************************************)
NoKey == "<nokey>"
None == "<None>"
NoTs == 0 - 1
TsNone == 0 - 2

(***************************************************************************)
(* Configuration (config.yaml "rss"): two feeds, A with an interval        *)
(* override, B on the default; each posts to its own room alias.           *)
(***************************************************************************)
feeds == <<"A", "B">>
FeedNames == {feeds[i] : i \in 1..Len(feeds)}
FeedRoom(name) == IF name = "A" THEN "#a" ELSE "#b"
FeedIntervalCfg(name) == IF name = "A" THEN 600 ELSE NoTs
Aliases == {FeedRoom(n) : n \in FeedNames}
ServerRoomId(alias) == IF alias = "#a" THEN "!a" ELSE "!b"

(***************************************************************************)
(* Raw entries the feed documents are built from: [id, link, ts], ts being *)
(* published_parsed in seconds.  Feed A publishes E1..E4, feed B E6.       *)
(***************************************************************************)
E1 == [id |-> "a", link |-> "la", ts |-> 300]
E2 == [id |-> "", link |-> "lb", ts |-> NoTs]
E3 == [id |-> NoKey, link |-> "lc", ts |-> 1000000]
E4 == [id |-> NoKey, link |-> NoKey, ts |-> TsNone]
E6 == [id |-> "x", link |-> "lx", ts |-> 200]
Entries == {E1, E2, E3, E4, E6}
FeedEntries(f) == IF f = "A" THEN {E1, E2, E3, E4} ELSE {E6}

RECURSIVE SeqsUpTo(_, _)
SeqsUpTo(S, n) ==
    IF n = 0 THEN {<<>>}
    ELSE LET shorter == SeqsUpTo(S, n - 1)
         IN shorter \cup {Append(s, e) : s \in {t \in shorter : Len(t) = n - 1}, e \in S}

\* what feedparser.parse(url).entries can be for feed f
Docs(f) == SeqsUpTo(FeedEntries(f), MaxLen)

(***************************************************************************)
(* dict.get and truthiness.                                                *)
(***************************************************************************)
Get(v) == IF v = NoKey THEN None ELSE v
Truthy(v) == v # None /\ v # ""

\* line 163: entry.get("id", entry.get("link")) -- the identifier the filter tests
FilterId(e) == IF e.id # NoKey THEN e.id ELSE Get(e.link)

\* line 166: entry.get("id") or entry.get("link") -- the identifier that is recorded
RecId(e) == IF Truthy(Get(e.id)) THEN e.id ELSE Get(e.link)

InList(x, s) == \E i \in 1..Len(s) : s[i] = x
ListSet(s) == {s[i] : i \in 1..Len(s)}

\* line 163: the list comprehension that selects the new entries
IsNew(e, delivered) == ~InList(FilterId(e), delivered)
NewEntries(d, delivered) == SelectSeq(d, LAMBDA e : IsNew(e, delivered))

\* line 165: key=lambda e: e.get("published_parsed", time.gmtime())
\* (now is the clock when the poll sorts; the sort is synchronous)
SortKey(e, now) == IF e.ts = NoTs THEN now ELSE e.ts

\* sorted() compares keys; None against a struct_time (or None) is a TypeError.
\* A list of fewer than two elements is never compared.
SortRaises(s) == Len(s) >= 2 /\ \E i \in 1..Len(s) : s[i].ts = TsNone

\* sorted() is stable: an element goes after every element whose key is <= its own
RECURSIVE Insert(_, _, _)
Insert(e, s, now) ==
    IF s = <<>> \/ SortKey(s[Len(s)], now) <= SortKey(e, now)
    THEN Append(s, e)
    ELSE Append(Insert(e, SubSeq(s, 1, Len(s) - 1), now), s[Len(s)])

\* the entries left in document order (line 165 without sorted())
Unsorted(s, now) == s

RECURSIVE Sorted(_, _)
Sorted(s, now) ==
    IF s = <<>> THEN <<>>
    ELSE Insert(s[Len(s)], Sorted(SubSeq(s, 1, Len(s) - 1), now), now)

(***************************************************************************)
(* The state mapping and the state file.                                   *)
(***************************************************************************)
EmptyMap == [n \in {} |-> <<>>]

\* lines 158-159 assigning a new mapping instead of adding a key
OnlyKey(st, name) == [n \in {name} |-> IF n \in DOMAIN st THEN st[n] ELSE <<>>]

\* lines 158-159: if name not in self.state: self.state[name] = []
WithKey(st, name) ==
    [n \in DOMAIN st \cup {name} |-> IF n \in DOMAIN st THEN st[n] ELSE <<>>]

\* the loop of lines 165-176 without its line 176
NotAppended(st, name, x) == st

\* line 176 assigning a new list instead of appending to the old one
Replaced(st, name, x) == [st EXCEPT ![name] = <<x>>]

\* line 176: self.state[name].append(entry_id)
Appended(st, name, x) == [st EXCEPT ![name] = Append(@, x)]

AbsentFile == [kind |-> "absent", doc |-> EmptyMap]
TruncatedFile == [kind |-> "empty", doc |-> EmptyMap]

\* a document yaml.safe_load cannot parse, such as a dump cut inside a quoted scalar
CorruptFile == [kind |-> "corrupt", doc |-> EmptyMap]

\* lines 92-93 dumping a fresh mapping instead of self.state
DumpedEmpty(st) == [kind |-> "yaml", doc |-> EmptyMap]

\* lines 92-93: open(STATE_FILE, "w") and yaml.dump(self.state, f)
Dumped(st) == [kind |-> "yaml", doc |-> st]

\* lines 86-89: a missing file, and a document that loads as None, give {}
Loaded(f) == IF f.kind = "yaml" THEN f.doc ELSE EmptyMap

\* line 89: yaml.safe_load raises (yaml.YAMLError) and nothing catches it
LoadRaises(f) == f.kind = "corrupt"

\* line 42 inside main() of lines 184-186: where a new process is once __init__ ran
StartPc(f) == IF LoadRaises(f) THEN "exited" ELSE "join"

\* what a process ended inside save_state can leave of the document being written
CutFiles == {TruncatedFile, CorruptFile}

\* names the state mapping can have as keys: the feeds, and a feed no longer configured
Names == FeedNames \cup {"old"}

\* per name, the identifiers of a mapping
IdSets(st) == [n \in Names |-> IF n \in DOMAIN st THEN ListSet(st[n]) ELSE {}]

InitFiles == {AbsentFile, CorruptFile, Dumped([n \in {"A", "old"} |-> IF n = "A" THEN <<"a">> ELSE <<"z">>])}

(***************************************************************************)
(* Rooms.                                                                  *)
(***************************************************************************)
\* line 135: self.room_ids.get(alias_or_room_id, alias_or_room_id)
RoomFor(rooms, alias) == IF alias \in DOMAIN rooms THEN rooms[alias] ELSE alias

\* send_html_message without the test of line 136
AnyRoom(r) == TRUE

\* line 136: room_id.startswith("!")
StartsWithBang(r) == r \in {ServerRoomId(a) : a \in Aliases}

\* line 49: feed.get("interval", self.default_interval)
Interval(name) ==
    IF FeedIntervalCfg(name) = NoTs THEN default_interval ELSE FeedIntervalCfg(name)

\* how long after the time its own interval set (due) a poll begins at time now;
\* a feed that has not slept yet in this run is due when its poll begins
Lateness(due, now) == IF due = NoTs THEN 0 ELSE now - due

JoinOutcomes == {"joined", "resolved", "unresolved", "resolve_exc", "join_exc"}

VARIABLES
    pc,         \* where the program is: join, loop, send, pace, save, sleep, dead, exited
    cur,        \* index into feeds of the for loop of process_feeds_loop
    room_ids,   \* self.room_ids: alias -> room id
    tried,      \* aliases join_rooms_from_feeds has been through
    state,      \* self.state: feed name -> list of identifiers
    file,       \* the state file
    clock,      \* wall clock, seconds
    doc,        \* data.entries of the poll in progress
    queue,      \* the sorted new entries not yet handled in this poll
    startList,  \* history: self.state[name] when the filter ran
    pollLog,    \* history: the send_html_message calls of this poll
    polls,      \* history: number of process_feed calls so far
    restarts,   \* history: number of process restarts so far
    nsent,      \* history: feed -> identifier -> number of room_send calls
    sendFailed, \* history: some room_send raised
    startDelay, \* history: how long after it was due the last poll began
    dueAt,      \* history: feed -> time its next poll is due by its own interval
    raisedIn,   \* history: the feed whose process_feed raised, or "-"
    loaded,     \* history: what load_state returned at the last start
    polledAt,   \* history: the clock when the poll in progress sorted its entries
    nsentAtStart, \* history: nsent when the process last started
    stateAtEnd, \* history: self.state when the previous process ended
    stateBefore, \* history: self.state when the poll in progress was called
    fileBefore, \* history: the state file when the poll in progress was called
    savedMax    \* history: name -> identifiers some completed save_state has written

vars == <<pc, cur, room_ids, tried, state, file, clock, doc, queue, startList,
          pollLog, polls, restarts, nsent, sendFailed, startDelay, dueAt,
          raisedIn, loaded, polledAt, nsentAtStart, stateAtEnd, savedMax,
          stateBefore, fileBefore>>

name == feeds[cur]

Idents == {RecId(e) : e \in Entries} \cup {FilterId(e) : e \in Entries}

Init ==
    /\ file \in InitFiles
    /\ pc = StartPc(file)
    /\ cur = 1
    /\ room_ids = [a \in {} |-> ""]
    /\ tried = {}
    /\ state = Loaded(file)
    /\ loaded = Loaded(file)
    /\ clock = 1000
    /\ doc = <<>>
    /\ queue = <<>>
    /\ startList = <<>>
    /\ pollLog = <<>>
    /\ polls = 0
    /\ restarts = 0
    /\ nsent = [n \in FeedNames |-> [i \in Idents |-> 0]]
    /\ sendFailed = FALSE
    /\ startDelay = 0
    /\ dueAt = [n \in FeedNames |-> NoTs]
    /\ raisedIn = "-"
    /\ polledAt = 1000
    /\ nsentAtStart = nsent
    /\ stateAtEnd = EmptyMap
    /\ stateBefore = EmptyMap
    /\ fileBefore = AbsentFile
    /\ savedMax = IdSets(file.doc)

\* the history of the poll in progress
pollHist == <<stateBefore, fileBefore>>

hist == <<polls, restarts, nsent, sendFailed, startDelay, dueAt, raisedIn, loaded,
          polledAt, nsentAtStart, stateAtEnd, savedMax>>

\* lines 105-131: one iteration of the loop over unique_rooms
JoinRoom(alias, outcome) ==
    /\ pc = "join"
    /\ alias \in Aliases \ tried
    /\ tried' = tried \cup {alias}
    /\ room_ids' =
         IF outcome \in {"joined", "resolved"}
         THEN [a \in DOMAIN room_ids \cup {alias} |->
                 IF a = alias THEN ServerRoomId(alias) ELSE room_ids[a]]
         ELSE room_ids
    /\ UNCHANGED <<pc, cur, state, file, clock, doc, queue, startList, pollLog, hist, pollHist>>

\* line 56: asyncio.create_task(self.process_feeds_loop())
StartLoop ==
    /\ pc = "join"
    /\ tried = Aliases
    /\ pc' = "loop"
    /\ cur' = 1
    /\ UNCHANGED <<room_ids, tried, state, file, clock, doc, queue, startList, pollLog, hist, pollHist>>

\* lines 154-165: process_feed up to the first await, for a fetch returning d
BeginPoll(d) ==
    /\ pc = "loop"
    /\ polls < MaxPolls
    /\ LET st == WithKey(state, name)
           new == NewEntries(d, st[name])
       IN /\ state' = st
          /\ stateBefore' = state
          /\ fileBefore' = file
          /\ startList' = st[name]
          /\ doc' = d
          /\ pollLog' = <<>>
          /\ polls' = polls + 1
          /\ startDelay' = Lateness(dueAt[name], clock)
          /\ polledAt' = clock
          /\ IF SortRaises(new)
             THEN /\ pc' = "dead"
                  /\ queue' = <<>>
                  /\ raisedIn' = name
             ELSE /\ queue' = Sorted(new, clock)
                  /\ pc' = IF new = <<>> THEN "save" ELSE "send"
                  /\ UNCHANGED raisedIn
    /\ UNCHANGED <<cur, room_ids, tried, file, clock, restarts, nsent, sendFailed, dueAt,
                   loaded, nsentAtStart, stateAtEnd, savedMax>>

\* line 162: feedparser.parse raises; the exception leaves process_feed and the task
FetchRaises ==
    /\ pc = "loop"
    /\ polls < MaxPolls
    /\ state' = WithKey(state, name)
    /\ stateBefore' = state
    /\ fileBefore' = file
    /\ startList' = state'[name]
    /\ doc' = <<>>
    /\ queue' = <<>>
    /\ pollLog' = <<>>
    /\ polls' = polls + 1
    /\ startDelay' = Lateness(dueAt[name], clock)
    /\ polledAt' = clock
    /\ pc' = "dead"
    /\ raisedIn' = name
    /\ UNCHANGED <<cur, room_ids, tried, file, clock, restarts, nsent, sendFailed, dueAt,
                   loaded, nsentAtStart, stateAtEnd, savedMax>>

\* lines 133-150 called from line 173: out is what room_send does
Send(out) ==
    /\ pc = "send"
    /\ LET e == Head(queue)
           room == RoomFor(room_ids, FeedRoom(name))
           res == IF StartsWithBang(room) THEN out ELSE "noroom"
       IN /\ pollLog' = Append(pollLog, [entry |-> e, out |-> res, room |-> room])
          /\ nsent' = IF res = "noroom" THEN nsent
                      ELSE [nsent EXCEPT ![name][RecId(e)] = @ + 1]
          /\ sendFailed' = (sendFailed \/ res = "raise")
    /\ pc' = "pace"
    /\ UNCHANGED <<cur, room_ids, tried, state, file, clock, doc, queue, startList,
                   polls, restarts, startDelay, dueAt, raisedIn, loaded, polledAt,
                   nsentAtStart, stateAtEnd, savedMax, pollHist>>

\* lines 174-176: asyncio.sleep(2), then the append
Mark ==
    /\ pc = "pace"
    /\ clock' = clock + PacingDelay
    /\ state' = Appended(state, name, RecId(Head(queue)))
    /\ queue' = Tail(queue)
    /\ pc' = IF Tail(queue) = <<>> THEN "save" ELSE "send"
    /\ UNCHANGED <<cur, room_ids, tried, file, doc, startList, pollLog, hist, pollHist>>

\* line 178 and lines 49-51: save_state, then the sleep begins
SaveState ==
    /\ pc = "save"
    /\ file' = Dumped(state)
    /\ dueAt' = [dueAt EXCEPT ![name] = clock + Interval(name)]
    /\ savedMax' = [n \in Names |-> savedMax[n] \cup IdSets(state)[n]]
    /\ pc' = "sleep"
    /\ UNCHANGED <<cur, room_ids, tried, state, clock, doc, queue, startList, pollLog,
                   polls, restarts, nsent, sendFailed, startDelay, raisedIn, loaded,
                   polledAt, nsentAtStart, stateAtEnd, pollHist>>

\* line 140: markdown.markdown raises, outside the try of lines 147-150; the
\* exception leaves send_html_message, process_feed and the task
FormatRaises ==
    /\ pc = "send"
    /\ StartsWithBang(RoomFor(room_ids, FeedRoom(name)))
    /\ pc' = "dead"
    /\ raisedIn' = name
    /\ UNCHANGED <<cur, room_ids, tried, state, file, clock, doc, queue, startList, pollLog,
                   polls, restarts, nsent, sendFailed, startDelay, dueAt, loaded,
                   polledAt, nsentAtStart, stateAtEnd, savedMax, pollHist>>

\* line 92: open() raises (OSError); the exception leaves process_feed and the task
SaveRaises ==
    /\ pc = "save"
    /\ pc' = "dead"
    /\ raisedIn' = name
    /\ UNCHANGED <<cur, room_ids, tried, state, file, clock, doc, queue, startList, pollLog,
                   polls, restarts, nsent, sendFailed, startDelay, dueAt, loaded,
                   polledAt, nsentAtStart, stateAtEnd, savedMax, pollHist>>

\* line 51 and the for/while of lines 46-47: the sleep ends, the next feed is taken
Sleep ==
    /\ pc = "sleep"
    /\ clock' = clock + Interval(name)
    /\ cur' = (cur % Len(feeds)) + 1
    /\ pc' = "loop"
    /\ doc' = <<>>
    /\ startList' = <<>>
    /\ pollLog' = <<>>
    /\ stateBefore' = EmptyMap
    /\ fileBefore' = AbsentFile
    /\ UNCHANGED <<room_ids, tried, state, file, queue, hist>>

\* lines 25-42 after the process ended with file f on disk: a new RssBot
Started(f) ==
    /\ restarts < MaxRestarts
    /\ restarts' = restarts + 1
    /\ file' = f
    /\ state' = Loaded(f)
    /\ loaded' = Loaded(f)
    /\ room_ids' = [a \in {} |-> ""]
    /\ tried' = {}
    /\ pc' = StartPc(f)
    /\ cur' = 1
    /\ doc' = <<>>
    /\ queue' = <<>>
    /\ startList' = <<>>
    /\ pollLog' = <<>>
    /\ dueAt' = [n \in FeedNames |-> NoTs]
    /\ startDelay' = 0
    /\ raisedIn' = "-"
    /\ nsentAtStart' = nsent
    /\ stateAtEnd' = state
    /\ stateBefore' = EmptyMap
    /\ fileBefore' = AbsentFile
    /\ UNCHANGED <<clock, polls, nsent, sendFailed, polledAt, savedMax>>

\* the process is terminated at an await or while idle, and started again
CrashRestart ==
    /\ pc \notin {"join", "exited"}
    /\ Started(file)

\* the process is terminated between open(..., "w") and the end of yaml.dump
CrashInSave ==
    /\ pc = "save"
    /\ \E f \in CutFiles : Started(f)

\* what the program does
Program ==
    \/ \E a \in Aliases, o \in JoinOutcomes : JoinRoom(a, o)
    \/ StartLoop
    \/ \E d \in Docs(name) : BeginPoll(d)
    \/ \E o \in {"ok", "raise"} : Send(o)
    \/ Mark
    \/ SaveState
    \/ Sleep

\* exceptions raised into process_feed by the fetch, the formatter and the file system
Faults ==
    \/ FetchRaises
    \/ FormatRaises
    \/ SaveRaises

\* the process ends and is started again
Restarts ==
    \/ CrashRestart
    \/ CrashInSave

Next == Program \/ Faults \/ Restarts

Spec == Init /\ [][Next]_vars

\* one run of the process, from its start on
NextRun == Program \/ Faults

RunSpec == Init /\ [][NextRun]_vars

\* asyncio runs a task that is ready: the program's own steps are not postponed forever
FairRunSpec == RunSpec /\ WF_vars(Program)

TypeOK ==
    /\ pc \in {"join", "loop", "send", "pace", "save", "sleep", "dead", "exited"}
    /\ cur \in 1..Len(feeds)
    /\ polls \in 0..MaxPolls
    /\ restarts \in 0..MaxRestarts
    /\ Len(queue) <= MaxLen

(***************************************************************************)
(* Vocabulary of the claims.                                               *)
(***************************************************************************)
\* a process_feed call has reached its loop over the new entries, or is past it
InPoll == pc \in {"send", "pace", "save", "sleep"}

\* process_feed has returned (save_state done) and the feed's sleep has begun
PollDone == pc = "sleep"

\* number of identifiers this poll has appended so far
Marked == Len(state[name]) - Len(startList)

LogIdx == 1..Len(pollLog)
Selected == {pollLog[i].entry : i \in LogIdx}
AllSendsOk == \A i \in LogIdx : pollLog[i].out = "ok"
NoSendRaised == \A i \in LogIdx : pollLog[i].out # "raise"
HasTs(e) == e.ts # NoTs /\ e.ts # TsNone
Resolved(alias) == alias \in DOMAIN room_ids

\* lines 44-56: every feed is polled by the one task main creates; the task has
\* ended once an exception left it
Polling(f) == f \in FeedNames /\ pc # "dead"

(***************************************************************************)
(* C1.  If room_send raises for a new entry, the poll does not add the     *)
(* entry's identifier to the feed's delivered list, and the entry would be *)
(* selected again by the next poll if the fetch still returns it.          *)
(***************************************************************************)
C1_FailedSendNotMarked ==
    InPoll =>
        \A i \in LogIdx :
            pollLog[i].out = "raise" =>
                /\ Marked < i
                /\ PollDone => IsNew(pollLog[i].entry, state[name])

(***************************************************************************)
(* C2.  At-least-once, in the form a finite run refutes: when a poll in    *)
(* which no send failed has completed, every fetched entry whose           *)
(* identifier was not in the delivered list before is in it now and was    *)
(* submitted to the chat transport.                                        *)
(***************************************************************************)
C2_AtLeastOnce ==
    (PollDone /\ NoSendRaised) =>
        \A k \in 1..Len(doc) :
            ~InList(RecId(doc[k]), startList) =>
                /\ InList(RecId(doc[k]), state[name])
                /\ \E i \in LogIdx : pollLog[i].entry = doc[k] /\ pollLog[i].out = "ok"

(***************************************************************************)
(* C3.  Idempotence of a poll: once process_feed has run on a fetched      *)
(* list, running it again on the same list with the state it left selects  *)
(* (and so sends) nothing.                                                 *)
(***************************************************************************)
C3_Idempotent == PollDone => NewEntries(doc, state[name]) = <<>>

(***************************************************************************)
(* C4.  No duplicate delivery: without a restart and with every send       *)
(* succeeding, no identifier of a feed is submitted to the chat transport  *)
(* more than once.                                                         *)
(***************************************************************************)
C4_NoDuplicate ==
    (restarts = 0 /\ ~sendFailed) =>
        \A f \in FeedNames : \A i \in Idents : nsent[f][i] <= 1

(***************************************************************************)
(* C5 as claimed.  Within one poll the entries are sent in ascending       *)
(* timestamp order, and every entry without a timestamp is sent after all  *)
(* entries that have one, also those dated later than the current time.    *)
(***************************************************************************)
C5_UndatedSentLast ==
    InPoll =>
        \A i \in LogIdx : \A j \in LogIdx :
            i < j =>
                /\ (HasTs(pollLog[i].entry) /\ HasTs(pollLog[j].entry))
                      => pollLog[i].entry.ts <= pollLog[j].entry.ts
                /\ ~(~HasTs(pollLog[i].entry) /\ HasTs(pollLog[j].entry))

(***************************************************************************)
(* C5 as amended.  Within one poll the entries are sent in ascending order *)
(* of their sort key: the publication timestamp, and for an entry without  *)
(* one the time at which the poll sorted its entries.                      *)
(***************************************************************************)
C5_SentInKeyOrder ==
    InPoll =>
        \A i \in LogIdx : \A j \in LogIdx :
            i < j => SortKey(pollLog[i].entry, polledAt) <= SortKey(pollLog[j].entry, polledAt)

\* a poll fetched a future-dated entry ahead of an undated one and sent both
C5_Witness ==
    /\ PollDone
    /\ doc = <<E3, E2>>
    /\ Len(pollLog) = 2
    /\ pollLog[1].entry = E2
    /\ pollLog[2].entry = E3

(***************************************************************************)
(* C6.  Diff exactness: a completed poll selected for sending exactly the  *)
(* fetched entries whose identifier (id, else link) was not in the         *)
(* delivered list at its start; if all sends succeeded the delivered set   *)
(* is the old one united with exactly those identifiers; and the           *)
(* identifier tested is the identifier recorded.                           *)
(***************************************************************************)
C6_DiffExact ==
    PollDone =>
        LET want == {doc[k] : k \in {n \in 1..Len(doc) : ~InList(FilterId(doc[n]), startList)}}
        IN /\ Selected = want
           /\ AllSendsOk =>
                ListSet(state[name]) = ListSet(startList) \cup {FilterId(e) : e \in want}
           /\ \A e \in Selected : FilterId(e) = RecId(e)

(***************************************************************************)
(* C7.  Independent cadence: a poll of a feed begins when that feed's own  *)
(* interval has passed since its own previous poll ended, never later      *)
(* because of another feed's poll or sleep.                                *)
(***************************************************************************)
C7_OwnCadence == startDelay = 0

(***************************************************************************)
(* C8.  Isolation of a resolution failure: in a run that starts polling    *)
(* with feed A's alias unresolved and feed B's alias resolved, B           *)
(* eventually completes a poll whose new entries were all submitted to B's *)
(* room and marked (or B's own process_feed raised).                       *)
(***************************************************************************)
BServed ==
    /\ name = "B"
    /\ PollDone
    /\ \A i \in LogIdx : pollLog[i].out # "noroom" /\ pollLog[i].room = ServerRoomId("#b")
    /\ \A k \in 1..Len(doc) : InList(RecId(doc[k]), state["B"])

C8_ResolutionIsolated ==
    (pc = "loop" /\ polls = 0 /\ ~Resolved("#a") /\ Resolved("#b"))
        ~> (BServed \/ raisedIn = "B")

(***************************************************************************)
(* C9.  Crash isolation: after process_feed of one feed raised, every      *)
(* other feed is still being polled.                                       *)
(***************************************************************************)
C9_CrashIsolated ==
    raisedIn # "-" => \A f \in FeedNames \ {raisedIn} : Polling(f)

(***************************************************************************)
(* C10.  Crash safety: an identifier that was submitted once and was in    *)
(* the in-memory delivered list when the process ended is submitted zero   *)
(* more times after the restart if it had reached the state file, at most  *)
(* once more if it had not, and never more than twice in all.              *)
(***************************************************************************)
C10_CrashSafe ==
    restarts > 0 =>
        \A f \in FeedNames : \A i \in Idents :
            LET before == nsentAtStart[f][i]
                after == nsent[f][i] - before
                marked == f \in DOMAIN stateAtEnd /\ InList(i, stateAtEnd[f])
                persisted == f \in DOMAIN loaded /\ InList(i, loaded[f])
            IN (before = 1 /\ marked) =>
                  /\ persisted => after = 0
                  /\ after <= 1
                  /\ nsent[f][i] <= 2

(***************************************************************************)
(* C11.  Atomic persistence: a process that ended inside save_state leaves *)
(* the state file as a complete document (the previous one or the new      *)
(* one), never empty, cut short or unparsable.                             *)
(***************************************************************************)
C11_AtomicSave == restarts > 0 => file.kind \in {"absent", "yaml"}

(***************************************************************************)
(* C12.  Corrupt-state handling: when the state file exists but cannot be  *)
(* parsed, load_state yields the empty state and startup goes on to join   *)
(* the rooms and schedule the feeds; the process does not terminate.       *)
(***************************************************************************)
C12_CorruptDegrades == file.kind = "corrupt" => (pc # "exited" /\ state = EmptyMap)

(***************************************************************************)
(* C13.  Delivered-set soundness: every identifier the poll in progress    *)
(* has appended to the feed's delivered list belongs to an entry whose     *)
(* send was attempted and succeeded; none is appended while the feed's     *)
(* room is unresolved.                                                     *)
(***************************************************************************)
C13_MarkedWasSent ==
    InPoll =>
        /\ \A i \in 1..Marked : i \in LogIdx /\ pollLog[i].out = "ok"
        /\ ~Resolved(FeedRoom(name)) => Marked = 0

(***************************************************************************)
(* C14.  Monotonic growth: in a run, no step removes a key of the          *)
(* in-memory state mapping or an identifier from the list of any key,      *)
(* whether the key is a configured feed or was only loaded from the state  *)
(* file.                                                                   *)
(***************************************************************************)
Grows ==
    \A n \in DOMAIN state :
        /\ n \in DOMAIN state'
        /\ ListSet(state[n]) \subseteq ListSet(state'[n])

C14_MonotonicGrowth == [][Grows]_vars

\* a run that loaded a key no feed has, with two identifiers appended since to a
\* loaded list
C14_Witness ==
    /\ "old" \in DOMAIN state
    /\ "A" \in DOMAIN loaded
    /\ Len(state["A"]) = Len(loaded["A"]) + 2

C16_MarkBeforeNextSend ==
    InPoll =>
        /\ Marked = (IF pc = "pace" THEN Len(pollLog) - 1 ELSE Len(pollLog))
        /\ \A i \in 1..Marked :
              state[name][Len(startList) + i] = RecId(pollLog[i].entry)
        /\ pc = "pace" =>
              \A i \in 1..(Len(pollLog) - 1) : InList(RecId(pollLog[i].entry), state[name])

\* the second entry of a poll has just been sent: the first is marked, the second not yet
C16_Witness ==
    /\ pc = "pace"
    /\ Len(pollLog) = 2
    /\ Marked = 1
    /\ InList(RecId(pollLog[1].entry), state[name])

(***************************************************************************)
(* C17.  Persist once per poll: the state file is not written between two  *)
(* entries of a batch; when process_feed has returned the file holds the   *)
(* in-memory state; and when an error ended the batch before its last      *)
(* entry, the identifiers the batch had appended by then are in the file.  *)
(***************************************************************************)
C17_PersistOncePerPoll ==
    /\ pc \in {"send", "pace", "save"} => file = fileBefore
    /\ PollDone => file = Dumped(state)
    /\ (pc = "dead" /\ raisedIn = name /\ queue # <<>>) =>
          \A i \in 1..Marked :
              /\ name \in DOMAIN file.doc
              /\ InList(state[name][Len(startList) + i], file.doc[name])

(***************************************************************************)
(* C18.  No lost update on the state file: a completed save has written    *)
(* the in-memory state of all names, and the document a completed save     *)
(* leaves holds, for every name, every identifier that any earlier         *)
(* completed save had written for it.                                      *)
(***************************************************************************)
C18_NoLostUpdate ==
    /\ PollDone => (file.kind = "yaml" /\ file.doc = state)
    /\ file.kind = "yaml" => \A n \in Names : savedMax[n] \subseteq IdSets(file.doc)[n]

(***************************************************************************)
(* C19.  No bogus destination: every message submitted for a feed goes to  *)
(* the room id that joining or resolving the feed's alias returned, the    *)
(* alias -> room id table does not change once polling has started, and    *)
(* for a feed whose alias was not resolved no message is submitted: each   *)
(* of its sends ends in the reported refusal.                              *)
(***************************************************************************)
SendsToResolved ==
    /\ InPoll =>
          \A i \in LogIdx :
              LET alias == FeedRoom(name)
              IN /\ pollLog[i].out # "noroom" =>
                      /\ Resolved(alias)
                      /\ pollLog[i].room = room_ids[alias]
                      /\ pollLog[i].room = ServerRoomId(alias)
                 /\ ~Resolved(alias) => pollLog[i].out = "noroom"
    /\ pc \notin {"join", "exited"} =>
          \A f \in FeedNames : ~Resolved(FeedRoom(f)) => nsent[f] = nsentAtStart[f]

C19_NoBogusDestination ==
    /\ []SendsToResolved
    /\ [][pc # "join" => room_ids' = room_ids]_vars

\* feed A's message went to its resolved room, feed B's send was refused: its alias
\* is unresolved
C19_Witness ==
    /\ PollDone
    /\ name = "B"
    /\ ~Resolved("#b")
    /\ Len(pollLog) = 1
    /\ pollLog[1].out = "noroom"
    /\ Resolved("#a")
    /\ nsent["A"]["a"] = 1

(***************************************************************************)
(* C20.  Frame of a poll: process_feed for a feed adds at most that feed's *)
(* key and changes only that feed's list; the lists of all other names,    *)
(* keys loaded from the state file that match no configured feed           *)
(* included, are as before the poll in memory, and in the state file once  *)
(* the poll's save has run.                                                *)
(***************************************************************************)
C20_PollFrame ==
    (InPoll \/ (pc = "dead" /\ raisedIn = name)) =>
        LET others == DOMAIN stateBefore \ {name}
        IN /\ DOMAIN state = DOMAIN stateBefore \cup {name}
           /\ \A n \in others : state[n] = stateBefore[n]
           /\ PollDone =>
                 /\ file.kind = "yaml"
                 /\ \A n \in others : n \in DOMAIN file.doc /\ file.doc[n] = stateBefore[n]

\* feed B's poll appended an identifier and saved, next to the lists of feed A and
\* of a name that only the state file knew
C20_Witness ==
    /\ PollDone
    /\ name = "B"
    /\ Marked = 1
    /\ "old" \in DOMAIN stateBefore
    /\ "A" \in DOMAIN stateBefore
    /\ Len(stateBefore["A"]) = 2
    /\ file.doc["old"] = <<"z">>

====
